---- MODULE Spec2Model ----
(***************************************************************************)
(* The AudioPlayer component (src/components/AudioPlayer.tsx) as mounted   *)
(* by App (src/App.tsx): the playback state machine, the per-session audio *)
(* graph, the bass parameter effect, the visualisation loop and the        *)
(* download handler.                                                       *)
(*                                                                         *)
(* Time is audioContext.currentTime in whole ticks.  A handler runs to     *)
(* completion together with the render React flushes at the end of the DOM *)
(* event that invoked it; a state update made outside a DOM event (the     *)
(* source's onended callback) is rendered by the separate step Render.     *)
(* The ended event of a source is queued when the source stops and is      *)
(* delivered by the event loop at any later point.                         *)
(***************************************************************************)
EXTENDS Integers, Sequences, FiniteSets

\* ---------------------------------------------------------------- bounds
\* Spec: play, pause, resume and natural end on one buffer, with the slider
\* at its two end levels
MaxTime == 2
MaxDuration == 2
MaxBuffers == 1
MaxSessions == 2
MaxDownloads == 1
\* BassSpec: every level of the slider, on one buffer
BassMaxTime == 1
BassMaxDuration == 1
BassMaxBuffers == 1
BassMaxSessions == 1
BassMaxDownloads == 1
\* ReplaceSpec: a second generation request, so that a buffer is replaced
ReplaceMaxTime == 1
ReplaceMaxDuration == 1
ReplaceMaxBuffers == 2
ReplaceMaxSessions == 2
ReplaceMaxDownloads == 2
\* WideSpec: three generation requests and four sessions
WideMaxTime == 1
WideMaxDuration == 2
WideMaxBuffers == 3
WideMaxSessions == 4
WideMaxDownloads == 1
\* StoredSpec: the component mounted over arbitrary stored settings
StoredMaxTime == 1
StoredMaxDuration == 1
StoredMaxBuffers == 1
StoredMaxSessions == 1
StoredMaxDownloads == 1

\* ------------------------------------------------------ program constants
\* the slider's range, and the gain per level in tenths of a decibel
MinBass == 0
MaxBass == 10
GainPerLevel == 15
\* the level App uses when nothing usable is stored
DefaultBass == 0

NoBuffer == 0
NoNode == 0
NoFrame == 0

VARIABLES
    audioBuffer,        \* prop: id of the buffer, NoBuffer for null
    bufferDuration,     \* audioBuffer.duration of the current buffer
    blob,               \* prop: TRUE when a blob is present
    audioContext,       \* prop: TRUE when an AudioContext is present
    bassBoost,          \* prop: the level App holds
    isLoading,          \* App: a generation request is in flight
    generated,          \* number of generation requests made so far
    isPlaying,          \* useState: the latest value
    shownPlaying,       \* isPlaying as captured by the rendered handlers
    sourceRef,          \* index into sessions, NoNode for null
    bassFilterRef,
    analyserRef,
    startTimeRef,
    pausedTimeRef,
    animationFrameRef,  \* id of the last requested frame, NoFrame for 0
    framePending,       \* a requested frame is waiting to run draw
    vizRenders,         \* number of times draw painted the canvas
    sessions,           \* every graph playAudio built, in order
    filterGain,         \* the gain the node of bassFilterRef is set to, or
                        \* is approaching after setTargetAtTime
    gainSmoothed,       \* that gain was last set by setTargetAtTime
    now,                \* audioContext.currentTime
    error,              \* an exception escaped a handler
    urlsCreated,        \* object URLs created so far
    urlsRevoked,        \* object URLs revoked so far
    anchorsAppended,    \* anchors appended to the document so far
    anchorsRemoved,     \* anchors removed from the document so far
    filesSaved,         \* downloads triggered by a click on an anchor
    lastOp,             \* history: the last handler that ran
    lastEnd,            \* history: how the latest session was left
    pauseCaptured,      \* history: the offset the last pause stored
    pausedAt,           \* history: the time of the last pause
    started             \* history: how the latest source was started

vars == <<audioBuffer, bufferDuration, blob, audioContext, bassBoost,
          isLoading, generated, isPlaying, shownPlaying, sourceRef,
          bassFilterRef, analyserRef, startTimeRef, pausedTimeRef,
          animationFrameRef, framePending, vizRenders, sessions, filterGain,
          gainSmoothed, now, error, urlsCreated, urlsRevoked, anchorsAppended,
          anchorsRemoved, filesSaved, lastOp, lastEnd, pauseCaptured,
          pausedAt, started>>

hostVars == <<audioBuffer, bufferDuration, blob, audioContext, isLoading,
              generated>>
refVars == <<sourceRef, bassFilterRef, analyserRef>>
vizVars == <<animationFrameRef, framePending, vizRenders>>
exportVars == <<urlsCreated, urlsRevoked, anchorsAppended, anchorsRemoved,
                filesSaved>>
gainVars == <<filterGain, gainSmoothed>>
histVars == <<lastEnd, pauseCaptured, pausedAt, started>>

BassLevels == MinBass..MaxBass
EndLevels == {MinBass, MaxBass}

\* what localStorage.getItem(STORAGE_KEYS.BASS) can return: null, the empty
\* string, a text that is not JSON, or the JSON text of a number
AbsentItem == [kind |-> "absent", value |-> 0]
EmptyItem == [kind |-> "empty", value |-> 0]
CorruptItem == [kind |-> "corrupt", value |-> 0]
NumberItem(n) == [kind |-> "number", value |-> n]

\* the items App itself leaves behind: none, or JSON.stringify of a level
WrittenItems(levels) == {AbsentItem} \cup {NumberItem(n) : n \in levels}

\* the numbers a stored item may hold when the storage was written by
\* something else: the slider's range and one step beyond either end
StoredNumbers == (MinBass - 1)..(MaxBass + 1)
AnyItems == {AbsentItem, EmptyItem, CorruptItem}
                \cup {NumberItem(n) : n \in StoredNumbers}

\* what a specification explores: the bounds of its actions, the levels
\* the slider is moved to, and the items the settings storage may hold at
\* mount
MainScope == [time |-> MaxTime, duration |-> MaxDuration,
              buffers |-> MaxBuffers, sessions |-> MaxSessions,
              downloads |-> MaxDownloads, levels |-> EndLevels,
              stored |-> WrittenItems(EndLevels)]
BassScope == [time |-> BassMaxTime, duration |-> BassMaxDuration,
              buffers |-> BassMaxBuffers, sessions |-> BassMaxSessions,
              downloads |-> BassMaxDownloads, levels |-> BassLevels,
              stored |-> WrittenItems(BassLevels)]
ReplaceScope == [time |-> ReplaceMaxTime, duration |-> ReplaceMaxDuration,
                 buffers |-> ReplaceMaxBuffers,
                 sessions |-> ReplaceMaxSessions,
                 downloads |-> ReplaceMaxDownloads, levels |-> EndLevels,
                 stored |-> WrittenItems(EndLevels)]
WideScope == [time |-> WideMaxTime, duration |-> WideMaxDuration,
              buffers |-> WideMaxBuffers, sessions |-> WideMaxSessions,
              downloads |-> WideMaxDownloads, levels |-> EndLevels,
              stored |-> WrittenItems(EndLevels)]

StoredScope == [time |-> StoredMaxTime, duration |-> StoredMaxDuration,
                buffers |-> StoredMaxBuffers, sessions |-> StoredMaxSessions,
                downloads |-> StoredMaxDownloads, levels |-> EndLevels,
                stored |-> AnyItems]

\* ------------------------------------------------------- pure computations
\* JSON.parse throws on a text that is not JSON
ParseThrows(item) == item.kind = "corrupt"

\* JSON.parse of the JSON text of a number is that number
JsonParse(item) == item.value

\* getStoredState: item ? JSON.parse(item) : defaultValue, and defaultValue
\* when JSON.parse throws; null and the empty string are falsy
GetStoredState(item, defaultValue) ==
    IF item.kind \in {"absent", "empty"} THEN defaultValue
    ELSE IF ParseThrows(item) THEN defaultValue
    ELSE JsonParse(item)

\* faulty variant: the percentage the slider's label shows, taken for the gain
GainForLabel(level) == level * 10

\* bassBoost * 1.5, in tenths of a decibel
GainFor(level) == level * GainPerLevel

\* pausedTimeRef.current % audioBuffer.duration
StartOffset(paused, duration) == paused % duration

\* faulty variant: the start reference forgets the offset
StartReferenceNoOffset(time, offset) == time

\* audioContext.currentTime - offset
StartReference(time, offset) == time - offset

\* audioContext.currentTime - startTimeRef.current
Elapsed(time, startTime) == time - startTime

\* faulty variant: the end is recognised only once it has been passed
AtEndStrict(elapsed, duration) == elapsed > duration

\* the test of onended: elapsed >= duration
AtEnd(elapsed, duration) == elapsed >= duration

\* the time at which a source started at `time` from `offset` reaches the
\* end of its buffer
EndTime(time, offset, duration) == time + (duration - offset)

\* AudioBufferSourceNode.stop() throws only on a source never started
StopThrows(s) == s.state = "unstarted"

\* AudioBufferSourceNode.stop(): a playing source halts and queues its ended
\* event; a source already halted or ended is left as it is
Halted(s) ==
    IF s.state = "playing"
    THEN [s EXCEPT !.state = "halted", !.endedQueued = TRUE, !.endsAt = 0]
    ELSE s

\* AudioNode.disconnect() on the source node
Disconnected(s) == [s EXCEPT !.sourceConnected = FALSE]

\* the three nodes playAudio creates and connects, and the source it starts
NewSession(buffer, duration, time, offset) ==
    [buf |-> buffer, dur |-> duration, state |-> "playing",
     endsAt |-> EndTime(time, offset, duration), endedQueued |-> FALSE,
     sourceConnected |-> TRUE, filterConnected |-> TRUE,
     analyserConnected |-> TRUE]

\* faulty variant: the guard forgets the audio context
NotReadyNoBuffer(buffer, context) == buffer = NoBuffer

\* playAudio's guard: !audioBuffer || !audioContext
NotReady(buffer, context) == buffer = NoBuffer \/ ~context

\* faulty variant: the guard is missing
NoBlobNever(b) == FALSE

\* handleDownload's guard: !blob
NoBlob(b) == ~b

\* faulty variant: draw does not look at isPlaying
DrawAlways(captured) == TRUE

\* draw's guard, on the isPlaying its closure captured: if (!isPlaying) return
DrawProceeds(captured) == captured

\* ------------------------------------------------------------------- Init
\* the component after its first render and its mount effects: App has
\* read the level from the settings storage, stopAudio has run on no source,
\* no buffer has been generated yet
InitIn(scope) ==
    /\ audioBuffer = NoBuffer
    /\ bufferDuration = 0
    /\ blob = FALSE
    /\ audioContext \in BOOLEAN
    /\ \E item \in scope.stored :
           bassBoost = GetStoredState(item, DefaultBass)
    /\ isLoading = FALSE
    /\ generated = 0
    /\ isPlaying = FALSE
    /\ shownPlaying = FALSE
    /\ sourceRef = NoNode
    /\ bassFilterRef = NoNode
    /\ analyserRef = NoNode
    /\ startTimeRef = 0
    /\ pausedTimeRef = 0
    /\ animationFrameRef = NoFrame
    /\ framePending = FALSE
    /\ vizRenders = 0
    /\ sessions = <<>>
    /\ filterGain = 0
    /\ gainSmoothed = FALSE
    /\ now = 0
    /\ error = FALSE
    /\ urlsCreated = 0
    /\ urlsRevoked = 0
    /\ anchorsAppended = 0
    /\ anchorsRemoved = 0
    /\ filesSaved = 0
    /\ lastOp = "mount"
    /\ lastEnd = "none"
    /\ pauseCaptured = -1
    /\ pausedAt = 0
    /\ started = [at |-> 0, offset |-> 0, after |-> "none", resumeOf |-> -1,
                  idle |-> 0]

\* ---------------------------------------------------------------- actions
\* faulty variant: stopAudio without setIsPlaying(false)
StopAudioKeepsPlaying ==
    /\ sessions' = IF sourceRef # NoNode
                   THEN [sessions EXCEPT ![sourceRef] = Disconnected(Halted(@))]
                   ELSE sessions
    /\ framePending' = IF animationFrameRef # NoFrame THEN FALSE
                       ELSE framePending
    /\ isPlaying' = isPlaying
    /\ pausedTimeRef' = 0
    /\ error' = error

\* stopAudio: halt (errors swallowed) and disconnect the current source,
\* cancel the last requested frame, setIsPlaying(false), offset to 0
StopAudio ==
    /\ sessions' = IF sourceRef # NoNode
                   THEN [sessions EXCEPT ![sourceRef] = Disconnected(Halted(@))]
                   ELSE sessions
    /\ framePending' = IF animationFrameRef # NoFrame THEN FALSE
                       ELSE framePending
    /\ isPlaying' = FALSE
    /\ pausedTimeRef' = 0
    /\ error' = error

\* faulty variant: the effect on [audioBuffer] does not call stopAudio
BufferEffectNoStop ==
    /\ pausedTimeRef' = 0
    /\ lastEnd' = "replace"
    /\ pauseCaptured' = -1
    /\ UNCHANGED <<isPlaying, shownPlaying, sessions, framePending, error,
                   refVars, startTimeRef, animationFrameRef, vizRenders,
                   gainVars, pausedAt, started>>

\* the effect on [audioBuffer]: stopAudio(); pausedTimeRef.current = 0
BufferEffect ==
    /\ StopAudio
    /\ pausedTimeRef' = 0
    /\ shownPlaying' = FALSE
    /\ lastEnd' = "replace"
    /\ pauseCaptured' = -1
    /\ UNCHANGED <<refVars, startTimeRef, animationFrameRef, vizRenders,
                   gainVars, pausedAt, started>>

\* handleGenerateAudio up to its first await: buffer and blob are cleared
GenerateStart(maxBuffers) ==
    /\ ~isLoading
    /\ generated < maxBuffers
    /\ isLoading' = TRUE
    /\ generated' = generated + 1
    /\ audioBuffer' = NoBuffer
    /\ bufferDuration' = 0
    /\ blob' = FALSE
    /\ IF audioBuffer # NoBuffer
       THEN BufferEffect
       ELSE UNCHANGED <<isPlaying, shownPlaying, refVars, startTimeRef,
                        pausedTimeRef, vizVars, sessions, gainVars, error,
                        histVars>>
    /\ lastOp' = "clear"
    /\ UNCHANGED <<audioContext, bassBoost, now, exportVars>>

\* handleGenerateAudio after the service answered: the result is accepted
GenerateDone(duration, withBlob) ==
    /\ isLoading
    /\ isLoading' = FALSE
    /\ audioBuffer' = generated
    /\ bufferDuration' = duration
    /\ blob' = withBlob
    /\ BufferEffect
    /\ lastOp' = "arrive"
    /\ UNCHANGED <<audioContext, bassBoost, generated, now, exportVars>>

\* handleGenerateAudio when the service threw: only the error is shown
GenerateFail ==
    /\ isLoading
    /\ isLoading' = FALSE
    /\ lastOp' = "fail"
    /\ UNCHANGED <<audioBuffer, bufferDuration, blob, audioContext, bassBoost,
                   generated, isPlaying, shownPlaying, refVars, startTimeRef,
                   pausedTimeRef, vizVars, sessions, gainVars, now, error,
                   exportVars, histVars>>

\* visualize() as called by playAudio: draw runs once, with the isPlaying
\* of the render that created the handler.  The Play button exists only in
\* a render with isPlaying false, so draw returns at its guard and requests
\* no frame: no later run of draw from requestAnimationFrame exists.
Visualize ==
    IF DrawProceeds(shownPlaying)
    THEN /\ animationFrameRef' = 1
         /\ framePending' = TRUE
         /\ vizRenders' = vizRenders + 1
    ELSE UNCHANGED vizVars

\* playAudio
PlayAudio ==
    IF NotReady(audioBuffer, audioContext)
    THEN /\ lastOp' = "playNotReady"
         /\ UNCHANGED <<hostVars, bassBoost, isPlaying, shownPlaying, refVars,
                        startTimeRef, pausedTimeRef, vizVars, sessions,
                        gainVars, now, error, exportVars, histVars>>
    ELSE LET offset == StartOffset(pausedTimeRef, bufferDuration)
             node == Len(sessions) + 1
         IN /\ sessions' = Append(sessions,
                   NewSession(audioBuffer, bufferDuration, now, offset))
            /\ filterGain' = GainFor(bassBoost)
            /\ gainSmoothed' = FALSE
            /\ started' = [at |-> now, offset |-> offset, after |-> lastEnd,
                           resumeOf |-> pauseCaptured,
                           idle |-> IF lastEnd = "pause" THEN now - pausedAt
                                    ELSE 0]
            /\ sourceRef' = node
            /\ bassFilterRef' = node
            /\ analyserRef' = node
            /\ startTimeRef' = StartReference(now, offset)
            /\ isPlaying' = TRUE
            /\ shownPlaying' = TRUE
            /\ Visualize
            /\ lastOp' = "play"
            /\ lastEnd' = "none"
            /\ UNCHANGED <<hostVars, bassBoost, pausedTimeRef, now, error,
                           exportVars, pauseCaptured, pausedAt>>

\* the Play button, rendered when a buffer is shown and isPlaying is false
ClickPlay(maxSessions) ==
    /\ audioBuffer # NoBuffer
    /\ ~shownPlaying
    /\ Len(sessions) < maxSessions
    /\ PlayAudio

\* pauseAudio, with the isPlaying of the render that created the handler
PauseAudio ==
    IF sourceRef # NoNode /\ shownPlaying /\ audioContext
    THEN /\ error' = (error \/ StopThrows(sessions[sourceRef]))
         /\ sessions' = [sessions EXCEPT
                            ![sourceRef] = Disconnected(Halted(@))]
         /\ pausedTimeRef' = Elapsed(now, startTimeRef)
         /\ isPlaying' = FALSE
         /\ shownPlaying' = FALSE
         /\ framePending' = IF animationFrameRef # NoFrame THEN FALSE
                            ELSE framePending
         /\ lastOp' = "pause"
         /\ lastEnd' = IF sessions[sourceRef].state = "playing" THEN "pause"
                       ELSE "pauseAfterEnd"
         /\ pauseCaptured' = Elapsed(now, startTimeRef)
         /\ pausedAt' = now
         /\ UNCHANGED <<hostVars, bassBoost, refVars, startTimeRef,
                        animationFrameRef, vizRenders, gainVars, now,
                        exportVars, started>>
    ELSE /\ lastOp' = "pauseIgnored"
         /\ UNCHANGED <<hostVars, bassBoost, isPlaying, shownPlaying, refVars,
                        startTimeRef, pausedTimeRef, vizVars, sessions,
                        gainVars, now, error, exportVars, histVars>>

\* the Pause button, rendered when a buffer is shown and isPlaying is true
ClickPause ==
    /\ audioBuffer # NoBuffer
    /\ shownPlaying
    /\ PauseAudio

\* source.onended of session i, delivered by the event loop
OnEnded(i) ==
    /\ i \in 1..Len(sessions)
    /\ sessions[i].endedQueued
    /\ sessions' = [sessions EXCEPT ![i].endedQueued = FALSE]
    /\ IF AtEnd(Elapsed(now, startTimeRef), sessions[i].dur)
       THEN /\ isPlaying' = FALSE
            /\ pausedTimeRef' = 0
            /\ lastEnd' = IF i = sourceRef /\ sessions[i].state = "ended"
                          THEN "natural" ELSE lastEnd
       ELSE UNCHANGED <<isPlaying, pausedTimeRef, lastEnd>>
    /\ UNCHANGED <<hostVars, bassBoost, shownPlaying, refVars, startTimeRef,
                   vizVars, gainVars, now, error, exportVars, lastOp,
                   pauseCaptured, pausedAt, started>>

\* the event loop takes one queued ended event and runs its handler
DeliverEnded == \E i \in 1..Len(sessions) : OnEnded(i)

\* React renders a state update that was made outside a DOM event
Render ==
    /\ shownPlaying # isPlaying
    /\ shownPlaying' = isPlaying
    /\ UNCHANGED <<hostVars, bassBoost, isPlaying, refVars, startTimeRef,
                   pausedTimeRef, vizVars, sessions, gainVars, now, error,
                   exportVars, lastOp, histVars>>

\* faulty variant: a change of level restarts playback from the beginning
SetBassBoostRestart(level) ==
    /\ level # bassBoost
    /\ bassBoost' = level
    /\ IF bassFilterRef # NoNode /\ audioContext
       THEN /\ filterGain' = GainFor(level)
            /\ gainSmoothed' = TRUE
       ELSE UNCHANGED gainVars
    /\ pausedTimeRef' = 0
    /\ lastOp' = "bass"
    /\ UNCHANGED <<hostVars, isPlaying, shownPlaying, refVars, startTimeRef,
                   vizVars, sessions, now, error, exportVars, histVars>>

\* the bass slider's onChange, and the effect on [bassBoost, audioContext]
SetBassBoost(level) ==
    /\ level # bassBoost
    /\ bassBoost' = level
    /\ IF bassFilterRef # NoNode /\ audioContext
       THEN /\ filterGain' = GainFor(level)
            /\ gainSmoothed' = TRUE
       ELSE UNCHANGED gainVars
    /\ lastOp' = "bass"
    /\ UNCHANGED <<hostVars, isPlaying, shownPlaying, refVars, startTimeRef,
                   pausedTimeRef, vizVars, sessions, now, error, exportVars,
                   histVars>>

\* faulty variant: the object URL is never revoked
HandleDownloadLeaks ==
    IF NoBlob(blob)
    THEN /\ lastOp' = "downloadNoBlob"
         /\ UNCHANGED exportVars
    ELSE /\ urlsCreated' = urlsCreated + 1
         /\ anchorsAppended' = anchorsAppended + 1
         /\ filesSaved' = filesSaved + 1
         /\ urlsRevoked' = urlsRevoked
         /\ anchorsRemoved' = anchorsRemoved + 1
         /\ lastOp' = "download"

\* handleDownload
HandleDownload ==
    IF NoBlob(blob)
    THEN /\ lastOp' = "downloadNoBlob"
         /\ UNCHANGED exportVars
    ELSE /\ urlsCreated' = urlsCreated + 1
         /\ anchorsAppended' = anchorsAppended + 1
         /\ filesSaved' = filesSaved + 1
         /\ urlsRevoked' = urlsRevoked + 1
         /\ anchorsRemoved' = anchorsRemoved + 1
         /\ lastOp' = "download"

\* faulty variant: the download also stops playback
ClickDownloadStops(maxDownloads) ==
    /\ audioBuffer # NoBuffer
    /\ filesSaved < maxDownloads
    /\ HandleDownload
    /\ isPlaying' = FALSE
    /\ pausedTimeRef' = 0
    /\ UNCHANGED <<hostVars, bassBoost, shownPlaying, refVars, startTimeRef,
                   vizVars, sessions, gainVars, now, error, histVars>>

\* the Download button, rendered when a buffer is shown
ClickDownload(maxDownloads) ==
    /\ audioBuffer # NoBuffer
    /\ filesSaved < maxDownloads
    /\ HandleDownload
    /\ UNCHANGED <<hostVars, bassBoost, isPlaying, shownPlaying, refVars,
                   startTimeRef, pausedTimeRef, vizVars, sessions, gainVars, now,
                   error, histVars>>

\* the audio clock advances; a playing source that reaches the end of its
\* buffer ends and queues its ended event
Tick(maxTime) ==
    /\ now < maxTime
    /\ now' = now + 1
    /\ sessions' = [i \in 1..Len(sessions) |->
                       IF sessions[i].state = "playing"
                          /\ sessions[i].endsAt <= now + 1
                       THEN [sessions[i] EXCEPT !.state = "ended",
                                                !.endedQueued = TRUE,
                                                !.endsAt = 0]
                       ELSE sessions[i]]
    /\ UNCHANGED <<hostVars, bassBoost, isPlaying, shownPlaying, refVars,
                   startTimeRef, pausedTimeRef, vizVars, gainVars, error,
                   exportVars, lastOp, histVars>>

NextIn(scope) ==
    \/ GenerateStart(scope.buffers)
    \/ \E d \in 1..scope.duration, b \in BOOLEAN : GenerateDone(d, b)
    \/ GenerateFail
    \/ ClickPlay(scope.sessions)
    \/ ClickPause
    \/ DeliverEnded
    \/ Render
    \/ \E level \in scope.levels : SetBassBoost(level)
    \/ ClickDownload(scope.downloads)
    \/ Tick(scope.time)

\* the event loop delivers every queued ended event, and React renders
\* every pending update
Fairness ==
    /\ WF_vars(DeliverEnded)
    /\ WF_vars(Render)

Init == InitIn(MainScope)
Next == NextIn(MainScope)
Spec == Init /\ [][Next]_vars
FairSpec == Spec /\ Fairness

BassInit == InitIn(BassScope)
BassNext == NextIn(BassScope)
BassSpec == BassInit /\ [][BassNext]_vars

ReplaceInit == InitIn(ReplaceScope)
ReplaceNext == NextIn(ReplaceScope)
ReplaceSpec == ReplaceInit /\ [][ReplaceNext]_vars

WideInit == InitIn(WideScope)
WideNext == NextIn(WideScope)
WideSpec == WideInit /\ [][WideNext]_vars

StoredInit == InitIn(StoredScope)
StoredNext == NextIn(StoredScope)
StoredSpec == StoredInit /\ [][StoredNext]_vars

\* ----------------------------------------------------------------- claims
Current == sessions[sourceRef]
HasSession == sourceRef # NoNode

\* C1: a play() that follows a pause() of a source that was still playing,
\* with no natural end and no buffer replacement in between, starts its
\* source at the offset the pause stored, modulo the duration, whenever the
\* ended event of the paused source is delivered.
C1_ResumeAtCapturedOffset ==
    (HasSession /\ started.after = "pause")
        => started.offset = started.resumeOf % Current.dur

\* C2: the value pause() stores is the offset its session started at plus
\* the time elapsed since that session's play(); time spent paused is not
\* counted.
C2_PauseStoresPosition ==
    [][(ClickPause /\ lastOp' = "pause")
          => pausedTimeRef' = started.offset + (now - started.at)]_vars

C2_Witness ==
    /\ lastOp = "pause"
    /\ started.after = "pause"
    /\ started.offset > 0
    /\ started.idle > 0

\* C3: with no user action after play(), once the source has reached the end
\* of the buffer the controller comes to isPlaying = FALSE with offset 0, it
\* is there once the ended event has been delivered, and a play() that
\* follows the natural end starts at offset 0.
C3_NaturalEndStops ==
    /\ []((lastOp = "play" /\ HasSession /\ Current.state = "ended"
           /\ ~Current.endedQueued)
              => (~isPlaying /\ pausedTimeRef = 0))
    /\ ((lastOp = "play" /\ HasSession /\ Current.state = "ended")
           ~> (lastOp # "play" \/ (~isPlaying /\ pausedTimeRef = 0)))
    /\ []((HasSession /\ started.after = "natural") => started.offset = 0)

C3_Witness ==
    /\ lastOp = "play"
    /\ started.after = "natural"
    /\ Current.state = "ended"
    /\ ~Current.endedQueued
    /\ ~isPlaying
    /\ ~shownPlaying

\* C4: while a session is active the gain of the filter of bassFilterRef is
\* 1.5 dB times the current level (15 tenths of a decibel per level): set
\* directly by play(), and the target of setTargetAtTime after a change of
\* level.
C4_GainIsLevelTimesOneAndAHalf ==
    (HasSession /\ (isPlaying \/ Current.state = "playing"))
        => /\ bassFilterRef = sourceRef
           /\ filterGain = 15 * bassBoost
           /\ (lastOp = "play" => ~gainSmoothed)
           /\ (lastOp = "bass" => gainSmoothed)

C4_Witness ==
    /\ isPlaying
    /\ Current.state = "playing"
    /\ lastOp = "bass"
    /\ bassBoost = 10
    /\ filterGain = 150
    /\ gainSmoothed

\* C5: a change of the bass level leaves isPlaying, the paused offset, the
\* start reference, the source reference and every source as they are,
\* builds no graph and raises no error.
C5_BassChangeLeavesPlayback ==
    [][(bassBoost' # bassBoost)
          => /\ isPlaying' = isPlaying
             /\ pausedTimeRef' = pausedTimeRef
             /\ startTimeRef' = startTimeRef
             /\ sourceRef' = sourceRef
             /\ sessions' = sessions
             /\ ~error']_vars

C5_Witness ==
    /\ lastOp = "bass"
    /\ HasSession
    /\ Current.state = "halted"
    /\ ~Current.sourceConnected
    /\ pausedTimeRef > 0
    /\ gainSmoothed

\* C6: while isPlaying is false no animation frame is pending (so no tick
\* of the loop can run and paint): after pause(), after a natural end and
\* after a buffer replacement.
C6_NoLoopWhileNotPlaying == ~isPlaying => ~framePending

C6_Witness ==
    /\ HasSession
    /\ lastEnd = "natural"
    /\ ~isPlaying
    /\ ~framePending

\* C7: after a buffer replacement isPlaying is false and the offset is 0,
\* the first play() on the new buffer starts at offset 0, and when a source
\* is started no source of another buffer is still playing.
C7_ReplacementStopsOldBuffer ==
    /\ lastOp \in {"clear", "arrive"} => (~isPlaying /\ pausedTimeRef = 0)
    /\ (HasSession /\ started.after = "replace") => started.offset = 0
    /\ lastOp = "play"
          => \A i \in 1..Len(sessions) :
                sessions[i].state = "playing" => sessions[i].buf = audioBuffer

\* C8: after stopAudio has run, on whatever source (none, halted by pause,
\* ended, already stopped), no error was raised, isPlaying is false and the
\* offset is 0.
C8_StopIsRepeatable ==
    lastOp \in {"clear", "arrive"}
        => /\ ~error
           /\ ~isPlaying
           /\ pausedTimeRef = 0
           /\ (HasSession => Current.state # "playing")

C8_Witness ==
    /\ lastOp = "arrive"
    /\ HasSession
    /\ Current.state = "halted"
    /\ ~Current.sourceConnected
    /\ Current.buf # audioBuffer

\* C9: play() with no buffer or no audio context creates no node, starts no
\* source, leaves isPlaying, the offset and the start reference as they are
\* and raises no error.
C9_PlayNotReadyIsNoOp ==
    [][(ClickPlay(MaxSessions) /\ (audioBuffer = NoBuffer \/ ~audioContext))
          => /\ sessions' = sessions
             /\ UNCHANGED refVars
             /\ isPlaying' = isPlaying
             /\ pausedTimeRef' = pausedTimeRef
             /\ startTimeRef' = startTimeRef
             /\ ~error']_vars

C9_Witness ==
    /\ lastOp = "playNotReady"
    /\ audioBuffer # NoBuffer
    /\ ~audioContext
    /\ sessions = <<>>

\* C10: download() with no blob creates no object URL, appends no anchor,
\* saves no file and raises no error.
C10_DownloadWithoutBlobIsNoOp ==
    [][(ClickDownload(MaxDownloads) /\ ~blob)
          => /\ UNCHANGED exportVars
             /\ ~error']_vars

C10_Witness ==
    /\ lastOp = "downloadNoBlob"
    /\ ~blob
    /\ audioBuffer # NoBuffer
    /\ urlsCreated = 0
    /\ filesSaved = 0

\* C11: whenever a buffer is present the paused offset is within
\* [0, duration), also when pause() runs after the source has reached the
\* end of the buffer and before its ended event is delivered.
C11_OffsetWithinBuffer ==
    audioBuffer # NoBuffer
        => (0 <= pausedTimeRef /\ pausedTimeRef < bufferDuration)

\* a session is finished once its source was halted, or has ended and its
\* ended event has been handled
Finished(s) == s.state = "halted" \/ (s.state = "ended" /\ ~s.endedQueued)

\* C12: of a finished session (paused, stopped by a buffer replacement, or
\* ended naturally) no node is connected any more: neither the source, nor
\* the bass filter, nor the analyser.
C12_TeardownDisconnectsChain ==
    \A i \in 1..Len(sessions) :
        Finished(sessions[i])
            => /\ ~sessions[i].sourceConnected
               /\ ~sessions[i].filterConnected
               /\ ~sessions[i].analyserConnected

\* the sessions whose analyser is connected to audioContext.destination
ConnectedToOutput == {i \in 1..Len(sessions) : sessions[i].analyserConnected}

\* C13: at most one session's graph is connected to the output device, after
\* any number of play/pause cycles.
C13_OneGraphOnOutput == Cardinality(ConnectedToOutput) <= 1

\* C14: at the moment a source is started, every earlier source has already
\* been halted or has ended; in particular the source a pause() halted is
\* halted before the source of the following play() starts.
C14_HaltBeforeStart ==
    [][(Len(sessions') > Len(sessions))
          => \A i \in 1..Len(sessions) : sessions[i].state # "playing"]_vars

\* C15: a download, in whatever playback state, leaves isPlaying, the paused
\* offset, the start reference, the three node references, every session's
\* nodes and the visualisation loop as they are.
C15_DownloadLeavesPlayback ==
    [][(urlsCreated' # urlsCreated)
          => /\ isPlaying' = isPlaying
             /\ pausedTimeRef' = pausedTimeRef
             /\ startTimeRef' = startTimeRef
             /\ UNCHANGED refVars
             /\ sessions' = sessions
             /\ UNCHANGED vizVars]_vars

C15_Witness ==
    /\ lastOp = "download"
    /\ filesSaved > 0
    /\ isPlaying
    /\ HasSession
    /\ Current.state = "playing"
    /\ started.after = "pause"
    /\ started.offset > 0

\* C16: the ended event of a source that was halted by pause() or by
\* stopAudio changes neither isPlaying nor the paused offset, whenever it is
\* delivered.
C16_HaltCallbackIgnored ==
    [][\A i \in 1..Len(sessions) :
          (OnEnded(i) /\ sessions[i].state = "halted")
              => (isPlaying' = isPlaying /\ pausedTimeRef' = pausedTimeRef)]_vars

\* C17: play() starts the visualisation loop (a frame is requested), and a
\* session that has stayed playing for a tick has been painted at least
\* once.
C17_LoopRendersWhilePlaying ==
    /\ (lastOp = "play" /\ isPlaying) => animationFrameRef # NoFrame
    /\ (HasSession /\ isPlaying /\ Current.state = "playing"
        /\ now > started.at) => vizRenders > 0

\* the sessions whose source was started and has neither been halted nor
\* reached its end
ActiveSources == {i \in 1..Len(sessions) : sessions[i].state = "playing"}

\* C18: at most one source is started and un-halted at any time, whatever
\* state playAudio is invoked in.
C18_OneActiveSource == Cardinality(ActiveSources) <= 1

\* C19: after any number of downloads every object URL that was created has
\* been revoked and every anchor that was appended has been removed.
C19_DownloadReleasesHandles ==
    /\ urlsRevoked = urlsCreated
    /\ anchorsRemoved = anchorsAppended

C19_Witness ==
    /\ lastOp = "download"
    /\ filesSaved = 2
    /\ urlsCreated = 2
    /\ urlsRevoked = 2
    /\ anchorsAppended = 2
    /\ anchorsRemoved = 2

\* C20: the level handed to the player is an integer of the slider's range
\* 0..10, and the gain applied is within 0..15 dB, whether the level comes
\* from the slider or from the settings storage at mount.
C20_LevelWithinRange ==
    /\ bassBoost \in BassLevels
    /\ filterGain \in GainFor(MinBass)..GainFor(MaxBass)

\* C21: the ended event of a source of a superseded buffer, delivered while
\* a source of the current buffer is playing, changes neither isPlaying nor
\* the paused offset.
C21_SupersededCallbackHarmless ==
    [][\A i \in 1..Len(sessions) :
          (/\ OnEnded(i)
           /\ sessions[i].buf # audioBuffer
           /\ HasSession
           /\ Current.buf = audioBuffer
           /\ Current.state = "playing")
              => (isPlaying' = isPlaying /\ pausedTimeRef' = pausedTimeRef)]_vars

\* C22: pause() while isPlaying is false (stopped, paused, after a natural
\* end), or with no source or no audio context, halts nothing, leaves
\* isPlaying, the paused offset and the start reference as they are and
\* raises no error.
C22_PauseNotPlayingIsNoOp ==
    [][(ClickPause /\ (~isPlaying \/ sourceRef = NoNode \/ ~audioContext))
          => /\ sessions' = sessions
             /\ isPlaying' = isPlaying
             /\ pausedTimeRef' = pausedTimeRef
             /\ startTimeRef' = startTimeRef
             /\ ~error']_vars

\* C23: while no buffer is present isPlaying is false and the paused offset
\* is 0; no buffer and no blob is present while a generation request is in
\* flight; and no session is started while no buffer is present.
C23_NoBufferMeansStopped ==
    /\ [](audioBuffer = NoBuffer => (~isPlaying /\ pausedTimeRef = 0))
    /\ [](isLoading => (audioBuffer = NoBuffer /\ ~blob))
    /\ [][(audioBuffer = NoBuffer) => Len(sessions') = Len(sessions)]_vars

C23_Witness ==
    /\ lastOp = "fail"
    /\ audioBuffer = NoBuffer
    /\ ~isLoading
    /\ HasSession
    /\ Current.state = "halted"
    /\ started.after = "pause"
    /\ ~isPlaying
    /\ pausedTimeRef = 0

====
